---- MODULE Spec2Model ----
(***************************************************************************)
(* Model of src/ray_marching_material.rs: the per-frame synchronisation of *)
(* camera pose and Mandelbulb parameters from the simulation world into    *)
(* the render world (extract_raymarching_material) and from there into the *)
(* uniform buffer of every RayMarchingMaterial (prepare_raymarching_       *)
(* material).                                                              *)
(*                                                                         *)
(* Numbers.  An f32 is modelled by an integer counting thousandths         *)
(* (1.0 is 1000, 0.002 is 2); a u32 is modelled by itself.  A quaternion   *)
(* has whole-number components, so that rotating a vector is exact.  A     *)
(* GPU buffer is a sequence of 32-bit words (word i covers the bytes       *)
(* 4*(i-1) .. 4*i-1); sizes, alignments and offsets are counted in words.  *)
(* An optional value (Option<T>, a component an entity may lack) is a      *)
(* sequence of length 0 or 1.                                              *)
(***************************************************************************)
EXTENDS Integers, Sequences, FiniteSets, TLC

VARIABLES
    simHandle,        \* simulation world: entity -> Handle<RayMarchingMaterial>, 0 = none
    cameras,          \* simulation world: Transforms of the Camera2d entities, in query order
    uniforms,         \* simulation world: resource MandelbulbUniforms
    aspect,           \* simulation world: resource AspectRatio
    rHandle,          \* render world: entity -> Handle component, 0 = none
    rTransform,       \* render world: entity -> optional Transform component
    rUniforms,        \* render world: optional resource MandelbulbUniforms
    rAspect,          \* render world: optional resource AspectRatio
    gpu,              \* RenderMaterials2d + GPU memory: handle -> buffer words, <<>> = not prepared
    pc,               \* position in the frame: "idle", "extracted", "prepared"
    writes,           \* the write_buffer calls of the latest prepare, in order
    frame,            \* history: the simulation world as extraction saw it, while the frame lasts
    skipped,          \* history: handles the previous frame's prepare looked up and did not find
    prevGpu,          \* history: gpu as the previous frame left it
    frameNo,          \* history: number of extractions so far
    changed,          \* history: the simulation or the materials changed since the latest prepare
    quiet,            \* history: nothing changed between the previous prepare and the latest
    resolvedAtPrepare \* history: the handles the latest prepare found in RenderMaterials2d, while the frame lasts

vars == <<simHandle, cameras, uniforms, aspect, rHandle, rTransform, rUniforms,
          rAspect, gpu, pc, writes, frame, skipped, prevGpu, frameNo, changed, quiet,
          resolvedAtPrepare>>

simVars == <<simHandle, cameras, uniforms, aspect>>
renderVars == <<rHandle, rTransform, rUniforms, rAspect>>

------------------------------------------------------------------------------
(* Bounds of the model. *)

MaxEntities == 2
MaxCameras == 2
NumHandles == 2
MaxFrames == 2

EntityIds == 1..MaxEntities
Handles == 1..NumHandles

------------------------------------------------------------------------------
(* Vectors, rotations, Transform. *)

Vec3(x, y, z) == <<x, y, z>>

Dot(a, b) == a[1] * b[1] + a[2] * b[2] + a[3] * b[3]

Cross(a, b) == <<a[2] * b[3] - a[3] * b[2],
                 a[3] * b[1] - a[1] * b[3],
                 a[1] * b[2] - a[2] * b[1]>>

Scale(v, k) == <<v[1] * k, v[2] * k, v[3] * k>>

Add3(a, b, c) == <<a[1] + b[1] + c[1], a[2] + b[2] + c[2], a[3] + b[3] + c[3]>>

Neg(v) == <<0 - v[1], 0 - v[2], 0 - v[3]>>

\* Quat * Vec3, q = <<x, y, z, w>>
QuatMulVec3(q, v) ==
    LET w == q[4]
        b == <<q[1], q[2], q[3]>>
        b2 == Dot(b, b)
    IN Add3(Scale(v, w * w - b2), Scale(b, Dot(v, b) * 2), Scale(Cross(b, v), w * 2))

UnitX == Vec3(1000, 0, 0)
UnitY == Vec3(0, 1000, 0)
UnitZ == Vec3(0, 0, 1000)

Transform(t, q) == [translation |-> t, rotation |-> q]

Forward(tr) == Neg(QuatMulVec3(tr.rotation, UnitZ))
Right(tr) == QuatMulVec3(tr.rotation, UnitX)
Up(tr) == QuatMulVec3(tr.rotation, UnitY)

\* The camera poses the simulation may set: a camera turned half a turn about
\* Y, and one whose rotation <<1, 0, 0, 1>> is a quarter turn about X that was
\* not normalised (Transform does not normalise it either).
TransformChoices ==
    { Transform(Vec3(1500, -2500, 3500), <<0, 1, 0, 0>>),
      Transform(Vec3(-4000, 5000, 6000), <<1, 0, 0, 1>>) }

------------------------------------------------------------------------------
(* The resources. *)

MandelbulbUniforms(pw, mi, bo, ns, mn, mx, zm) ==
    [power |-> pw, max_iterations |-> mi, bailout |-> bo, num_steps |-> ns,
     min_dist |-> mn, max_dist |-> mx, zoom |-> zm]

\* Values the simulation may store: the defaults, and a set with power 12.0,
\* num_steps 128 and the out-of-range max_iterations 0 and min_dist > max_dist.
UniformChoices ==
    { MandelbulbUniforms(8000, 8, 3000, 64, 2, 1000000, 1000),
      MandelbulbUniforms(12000, 0, 4500, 128, 7000, 6000, 2500) }

AspectRatio(ar) == [aspect_ratio |-> ar]

AspectChoices == {AspectRatio(1000), AspectRatio(1778)}

------------------------------------------------------------------------------
(* RayMarchingMaterialUniformData and its uniform-address-space layout. *)

\* Variant: max_iterations kept at 1 or more before it is written.
UniformDataClamped(cp, cf, ch, cv, ar, u) ==
    [camera_position |-> cp, camera_forward |-> cf, camera_horizontal |-> ch,
     camera_vertical |-> cv, apsect_ratio |-> ar, power |-> u.power,
     max_iterations |-> IF u.max_iterations < 1 THEN 1 ELSE u.max_iterations,
     bailout |-> u.bailout, num_steps |-> u.num_steps, min_dist |-> u.min_dist,
     max_dist |-> u.max_dist, zoom |-> u.zoom]

\* Variant: the right and up vectors stored in each other's member.
UniformDataSwappedAxes(cp, cf, ch, cv, ar, u) ==
    [camera_position |-> cp, camera_forward |-> cf, camera_horizontal |-> cv,
     camera_vertical |-> ch, apsect_ratio |-> ar, power |-> u.power,
     max_iterations |-> u.max_iterations, bailout |-> u.bailout,
     num_steps |-> u.num_steps, min_dist |-> u.min_dist, max_dist |-> u.max_dist,
     zoom |-> u.zoom]

RayMarchingMaterialUniformData(cp, cf, ch, cv, ar, u) ==
    [camera_position |-> cp, camera_forward |-> cf, camera_horizontal |-> ch,
     camera_vertical |-> cv, apsect_ratio |-> ar, power |-> u.power,
     max_iterations |-> u.max_iterations, bailout |-> u.bailout,
     num_steps |-> u.num_steps, min_dist |-> u.min_dist, max_dist |-> u.max_dist,
     zoom |-> u.zoom]

\* The members in declaration order, with the size and alignment (in words)
\* of their types: Vec3 is 3 words aligned to 4, f32 and u32 are 1 word.
Fields ==
    << [name |-> "camera_position", size |-> 3, align |-> 4],
       [name |-> "camera_forward", size |-> 3, align |-> 4],
       [name |-> "camera_horizontal", size |-> 3, align |-> 4],
       [name |-> "camera_vertical", size |-> 3, align |-> 4],
       [name |-> "apsect_ratio", size |-> 1, align |-> 1],
       [name |-> "power", size |-> 1, align |-> 1],
       [name |-> "max_iterations", size |-> 1, align |-> 1],
       [name |-> "bailout", size |-> 1, align |-> 1],
       [name |-> "num_steps", size |-> 1, align |-> 1],
       [name |-> "min_dist", size |-> 1, align |-> 1],
       [name |-> "max_dist", size |-> 1, align |-> 1],
       [name |-> "zoom", size |-> 1, align |-> 1] >>

RoundUp(n, a) == ((n + a - 1) \div a) * a

\* Offset (in words, from 0) of member i: the end of member i-1 rounded up
\* to the alignment of member i.
RECURSIVE FieldOffset(_)
FieldOffset(i) ==
    IF i = 1 THEN 0
    ELSE RoundUp(FieldOffset(i - 1) + Fields[i - 1].size, Fields[i].align)

Offsets == [i \in 1..Len(Fields) |-> FieldOffset(i)]

\* The struct is aligned to its widest member; its size is rounded up to that.
StructAlign == 4
BlockSize == RoundUp(Offsets[Len(Fields)] + Fields[Len(Fields)].size, StructAlign)

\* The words of one member.
FieldWords(data, i) ==
    LET v == data[Fields[i].name]
    IN IF Fields[i].size = 1 THEN <<v>> ELSE v

\* encase::UniformBuffer::write: every member at its offset, padding zeroed.
Serialize(data) ==
    [w \in 1..BlockSize |->
        IF \E i \in 1..Len(Fields) :
              w - 1 >= Offsets[i] /\ w - 1 < Offsets[i] + Fields[i].size
        THEN LET i == CHOOSE j \in 1..Len(Fields) :
                        w - 1 >= Offsets[j] /\ w - 1 < Offsets[j] + Fields[j].size
             IN FieldWords(data, i)[w - Offsets[i]]
        ELSE 0]

\* Variant: the write leaves the first vector of the buffer (the position) as
\* it was.
WriteBufferKeepPosition(old, offset, data) ==
    [w \in 1..Len(old) |->
        IF w > 4 /\ w > offset /\ w <= offset + Len(data) THEN data[w - offset] ELSE old[w]]

\* RenderQueue::write_buffer(buffer, offset, data), offset in words.
WriteBuffer(old, offset, data) ==
    [w \in 1..Len(old) |->
        IF w > offset /\ w <= offset + Len(data) THEN data[w - offset] ELSE old[w]]

\* RayMarchingMaterial::new(): the values a material asset is created with and
\* its buffer holds when the material is first prepared for the GPU.
NewMaterial ==
    RayMarchingMaterialUniformData(
        Vec3(0, 0, 0), Vec3(0, 0, -1000), Vec3(1000, 0, 0), Vec3(0, 1000, 0), 1000,
        MandelbulbUniforms(8000, 8, 3000, 64, 2, 1000000, 1000))

------------------------------------------------------------------------------
(* Queries and deferred commands. *)

\* The orders in which a query may yield the entities of S.
Orders(S) ==
    { o \in [1..Cardinality(S) -> S] : \A i, j \in 1..Cardinality(S) : o[i] = o[j] => i = j }

\* Query<(Entity, &Handle<RayMarchingMaterial>)>
HandleQuery(handle) == { e \in EntityIds : handle[e] # 0 }

\* Query<(&Transform, &Handle<RayMarchingMaterial>)>
MaterialQuery(handle, transform) ==
    { e \in EntityIds : handle[e] # 0 /\ transform[e] # <<>> }

Cmd(op, e, arg) == [op |-> op, entity |-> e, arg |-> arg]

\* Variant: a default Transform is attached when there is no camera.
EntityCommandsDefault(e, h, cams) ==
    <<Cmd("get_or_spawn", e, 0), Cmd("insert_handle", e, h)>>
        \o (IF cams = <<>>
            THEN <<Cmd("insert_transform", e, Transform(Vec3(0, 0, 0), <<0, 0, 0, 1>>))>>
            ELSE [i \in 1..Len(cams) |-> Cmd("insert_transform", e, cams[i])])

\* Variant: the camera loop stops after the first camera.
EntityCommandsFirst(e, h, cams) ==
    <<Cmd("get_or_spawn", e, 0), Cmd("insert_handle", e, h)>>
        \o (IF cams = <<>> THEN <<>> ELSE <<Cmd("insert_transform", e, cams[1])>>)

\* Variant: entities and cameras paired off, entity e with camera e.
EntityCommandsPaired(e, h, cams) ==
    <<Cmd("get_or_spawn", e, 0), Cmd("insert_handle", e, h)>>
        \o (IF e <= Len(cams) THEN <<Cmd("insert_transform", e, cams[e])>> ELSE <<>>)

\* The body of the loop over ray_marching_query for one entity.
EntityCommands(e, h, cams) ==
    <<Cmd("get_or_spawn", e, 0), Cmd("insert_handle", e, h)>>
        \o [i \in 1..Len(cams) |-> Cmd("insert_transform", e, cams[i])]

RECURSIVE EntityLoop(_, _, _)
EntityLoop(order, handle, cams) ==
    IF order = <<>> THEN <<>>
    ELSE EntityCommands(Head(order), handle[Head(order)], cams)
             \o EntityLoop(Tail(order), handle, cams)

\* Everything extract_raymarching_material queues, in order.
ExtractCommands(order, handle, cams, ar, u) ==
    EntityLoop(order, handle, cams)
        \o <<Cmd("insert_aspect", 0, AspectRatio(ar.aspect_ratio)),
             Cmd("insert_uniforms", 0,
                 MandelbulbUniforms(u.power, u.max_iterations, u.bailout, u.num_steps,
                                    u.min_dist, u.max_dist, u.zoom))>>

\* Variant: a resource is inserted only where the render world has none yet.
ApplyCommandKeep(W, c) ==
    CASE c.op = "get_or_spawn" -> W
      [] c.op = "insert_handle" -> [W EXCEPT !.handle[c.entity] = c.arg]
      [] c.op = "insert_transform" -> [W EXCEPT !.transform[c.entity] = <<c.arg>>]
      [] c.op = "insert_aspect" ->
            IF W.aspect = <<>> THEN [W EXCEPT !.aspect = <<c.arg>>] ELSE W
      [] c.op = "insert_uniforms" ->
            IF W.uniforms = <<>> THEN [W EXCEPT !.uniforms = <<c.arg>>] ELSE W

\* One command applied to the render world W.
ApplyCommand(W, c) ==
    CASE c.op = "get_or_spawn" -> W
      [] c.op = "insert_handle" -> [W EXCEPT !.handle[c.entity] = c.arg]
      [] c.op = "insert_transform" -> [W EXCEPT !.transform[c.entity] = <<c.arg>>]
      [] c.op = "insert_aspect" -> [W EXCEPT !.aspect = <<c.arg>>]
      [] c.op = "insert_uniforms" -> [W EXCEPT !.uniforms = <<c.arg>>]

RECURSIVE ApplyCommands(_, _)
ApplyCommands(W, cs) ==
    IF cs = <<>> THEN W ELSE ApplyCommands(ApplyCommand(W, Head(cs)), Tail(cs))

RenderWorld ==
    [handle |-> rHandle, transform |-> rTransform, aspect |-> rAspect,
     uniforms |-> rUniforms]

------------------------------------------------------------------------------
(* prepare_raymarching_material. *)

\* materials.get(handle)
MaterialsGet(g, h) == IF g[h] = <<>> THEN <<>> ELSE <<[bindings |-> <<h>>]>>

\* Variant: the write starts after the position, "so the position data is not
\* over-written".
BindingWritesAfterPosition(bindings, tr, ar, u) ==
    [i \in 1..Len(bindings) |->
        [buffer |-> bindings[i], offset |-> 4,
         data |-> SubSeq(Serialize(RayMarchingMaterialUniformData(
                      tr.translation, Forward(tr), Right(tr), Up(tr), ar, u)),
                         5, BlockSize)]]

\* The loop over material.bindings for one entity: one write per buffer binding.
BindingWrites(bindings, tr, ar, u) ==
    [i \in 1..Len(bindings) |->
        [buffer |-> bindings[i], offset |-> 0,
         data |-> Serialize(RayMarchingMaterialUniformData(
                      tr.translation, Forward(tr), Right(tr), Up(tr), ar, u))]]

\* The body of the loop over material_query for one entity.
EntityWrites(g, tr, h, ar, u) ==
    IF MaterialsGet(g, h) # <<>>
    THEN BindingWrites(MaterialsGet(g, h)[1].bindings, tr, ar, u)
    ELSE <<>>

\* Variant: the loop over the entities ends at the first material not found.
RECURSIVE PrepareWritesReturn(_, _, _, _, _, _)
PrepareWritesReturn(order, g, handle, transform, ar, u) ==
    IF order = <<>> THEN <<>>
    ELSE IF MaterialsGet(g, handle[Head(order)]) = <<>> THEN <<>>
    ELSE EntityWrites(g, transform[Head(order)][1], handle[Head(order)], ar, u)
             \o PrepareWritesReturn(Tail(order), g, handle, transform, ar, u)

RECURSIVE PrepareWrites(_, _, _, _, _, _)
PrepareWrites(order, g, handle, transform, ar, u) ==
    IF order = <<>> THEN <<>>
    ELSE EntityWrites(g, transform[Head(order)][1], handle[Head(order)], ar, u)
             \o PrepareWrites(Tail(order), g, handle, transform, ar, u)

\* The queued writes reach the buffers in the order they were queued.
RECURSIVE ApplyWrites(_, _)
ApplyWrites(g, ws) ==
    IF ws = <<>> THEN g
    ELSE ApplyWrites(
             [g EXCEPT ![Head(ws).buffer] =
                  WriteBuffer(g[Head(ws).buffer], Head(ws).offset, Head(ws).data)],
             Tail(ws))

------------------------------------------------------------------------------
(* The state machine. *)

NoEntities == [e \in EntityIds |-> 0]
NoTransforms == [e \in EntityIds |-> <<>>]

Snapshot ==
    [handle |-> simHandle, cameras |-> cameras, uniforms |-> uniforms, aspect |-> aspect]

Init ==
    /\ simHandle = NoEntities
    /\ cameras = <<>>
    /\ uniforms \in UniformChoices
    /\ aspect \in AspectChoices
    /\ rHandle = NoEntities
    /\ rTransform = NoTransforms
    /\ rUniforms = <<>>
    /\ rAspect = <<>>
    /\ gpu = [h \in Handles |-> <<>>]
    /\ pc = "idle"
    /\ writes = <<>>
    /\ frame = <<>>
    /\ skipped = {}
    /\ prevGpu = <<>>
    /\ frameNo = 0
    /\ changed = FALSE
    /\ quiet = FALSE
    /\ resolvedAtPrepare = {}

\* Simulation-side logic.  It runs between the end of one frame's rendering
\* and the next extraction: it touches the simulation world only, and the
\* render-side steps touch the render world only, so running it while the
\* render world works on a frame leads to no other render-world state.
Simulation ==
    /\ pc = "idle"
    /\ frameNo < MaxFrames
    /\ changed' = TRUE
    /\ UNCHANGED <<renderVars, gpu, pc, writes, frame, skipped, prevGpu, frameNo, quiet,
                   resolvedAtPrepare>>

SetUniforms ==
    /\ \E u \in UniformChoices : u # uniforms /\ uniforms' = u
    /\ UNCHANGED <<simHandle, cameras, aspect>>
    /\ Simulation

SetAspectRatio ==
    /\ \E a \in AspectChoices : a # aspect /\ aspect' = a
    /\ UNCHANGED <<simHandle, cameras, uniforms>>
    /\ Simulation

SpawnCamera ==
    /\ Len(cameras) < MaxCameras
    /\ \E t \in TransformChoices : cameras' = Append(cameras, t)
    /\ UNCHANGED <<simHandle, uniforms, aspect>>
    /\ Simulation

DespawnCamera ==
    /\ \E i \in 1..Len(cameras) :
          cameras' = SubSeq(cameras, 1, i - 1) \o SubSeq(cameras, i + 1, Len(cameras))
    /\ UNCHANGED <<simHandle, uniforms, aspect>>
    /\ Simulation

MoveCamera ==
    /\ \E i \in 1..Len(cameras), t \in TransformChoices :
          t # cameras[i] /\ cameras' = [cameras EXCEPT ![i] = t]
    /\ UNCHANGED <<simHandle, uniforms, aspect>>
    /\ Simulation

SpawnEntity ==
    /\ \E e \in EntityIds, h \in Handles :
          simHandle[e] = 0 /\ simHandle' = [simHandle EXCEPT ![e] = h]
    /\ UNCHANGED <<cameras, uniforms, aspect>>
    /\ Simulation

DespawnEntity ==
    /\ \E e \in EntityIds : simHandle[e] # 0 /\ simHandle' = [simHandle EXCEPT ![e] = 0]
    /\ UNCHANGED <<cameras, uniforms, aspect>>
    /\ Simulation

\* Material2dPlugin prepares a material asset for the GPU in the render
\* schedule's Prepare set: its buffer is created holding the asset's own
\* values.  Nothing orders this against prepare_raymarching_material, which
\* is in the same set: it happens before that system has run in the frame,
\* or after it.
PrepareAsset ==
    /\ pc \in {"extracted", "prepared"}
    /\ \E h \in Handles : gpu[h] = <<>> /\ gpu' = [gpu EXCEPT ![h] = Serialize(NewMaterial)]
    /\ changed' = TRUE
    /\ quiet' = FALSE
    /\ UNCHANGED <<simVars, renderVars, pc, writes, frame, skipped, prevGpu, frameNo,
                   resolvedAtPrepare>>

\* Variant: the extraction takes MandelbulbUniforms out of the simulation
\* world, leaving the default there.
ExtractTake ==
    /\ pc = "idle"
    /\ frameNo < MaxFrames
    /\ \E order \in Orders(HandleQuery(simHandle)) :
          LET W == ApplyCommands(RenderWorld,
                       ExtractCommands(order, simHandle, cameras, aspect, uniforms))
          IN /\ rHandle' = W.handle
             /\ rTransform' = W.transform
             /\ rAspect' = W.aspect
             /\ rUniforms' = W.uniforms
    /\ uniforms' = MandelbulbUniforms(8000, 8, 3000, 64, 2, 1000000, 1000)
    /\ pc' = "extracted"
    /\ frame' = <<Snapshot>>
    /\ frameNo' = frameNo + 1
    /\ UNCHANGED <<simHandle, cameras, aspect, gpu, writes, skipped, prevGpu, changed, quiet,
                   resolvedAtPrepare>>

\* ExtractSchedule: extract_raymarching_material, then its commands applied.
Extract ==
    /\ pc = "idle"
    /\ frameNo < MaxFrames
    /\ \E order \in Orders(HandleQuery(simHandle)) :
          LET W == ApplyCommands(RenderWorld,
                       ExtractCommands(order, simHandle, cameras, aspect, uniforms))
          IN /\ rHandle' = W.handle
             /\ rTransform' = W.transform
             /\ rAspect' = W.aspect
             /\ rUniforms' = W.uniforms
    /\ pc' = "extracted"
    /\ frame' = <<Snapshot>>
    /\ frameNo' = frameNo + 1
    /\ UNCHANGED <<simVars, gpu, writes, skipped, prevGpu, changed, quiet,
                   resolvedAtPrepare>>

\* Variant: a material that was not found once is not looked up again.
PrepareNoRetry ==
    /\ pc = "extracted"
    /\ rAspect # <<>> /\ rUniforms # <<>>
    /\ \E order \in Orders({ e \in MaterialQuery(rHandle, rTransform) :
                                rHandle[e] \notin skipped }) :
          writes' = PrepareWrites(order, gpu, rHandle, rTransform,
                                  rAspect[1].aspect_ratio, rUniforms[1])
    /\ gpu' = ApplyWrites(gpu, writes')
    /\ pc' = "prepared"
    /\ quiet' = ~changed
    /\ changed' = FALSE
    /\ resolvedAtPrepare' = { h \in Handles : MaterialsGet(gpu, h) # <<>> }
    /\ UNCHANGED <<simVars, renderVars, frame, skipped, prevGpu, frameNo>>

\* Render schedule, RenderSet::Prepare: prepare_raymarching_material, then the
\* queued writes carried out.
Prepare ==
    /\ pc = "extracted"
    /\ rAspect # <<>> /\ rUniforms # <<>>
    /\ \E order \in Orders(MaterialQuery(rHandle, rTransform)) :
          writes' = PrepareWrites(order, gpu, rHandle, rTransform,
                                  rAspect[1].aspect_ratio, rUniforms[1])
    /\ gpu' = ApplyWrites(gpu, writes')
    /\ pc' = "prepared"
    /\ quiet' = ~changed
    /\ changed' = FALSE
    /\ resolvedAtPrepare' = { h \in Handles : MaterialsGet(gpu, h) # <<>> }
    /\ UNCHANGED <<simVars, renderVars, frame, skipped, prevGpu, frameNo>>

\* End of the render schedule: the render world's entities are cleared, its
\* resources and the GPU buffers stay.
Cleanup ==
    /\ pc = "prepared"
    /\ rHandle' = NoEntities
    /\ rTransform' = NoTransforms
    /\ writes' = <<>>
    /\ frame' = <<>>
    /\ prevGpu' = <<gpu>>
    /\ skipped' = { rHandle[e] : e \in { x \in MaterialQuery(rHandle, rTransform) :
                                             rHandle[x] \notin resolvedAtPrepare } }
    /\ quiet' = FALSE
    /\ resolvedAtPrepare' = {}
    /\ pc' = "idle"
    /\ UNCHANGED <<simVars, rUniforms, rAspect, gpu, frameNo, changed>>

Next ==
    \/ SetUniforms
    \/ SetAspectRatio
    \/ SpawnCamera
    \/ DespawnCamera
    \/ MoveCamera
    \/ SpawnEntity
    \/ DespawnEntity
    \/ PrepareAsset
    \/ Extract
    \/ Prepare
    \/ Cleanup

Spec == Init /\ [][Next]_vars

------------------------------------------------------------------------------
(* Reading a buffer back, at the word offsets the shader's Camera struct     *)
(* declares: four vec3 at bytes 0, 16, 32, 48, then eight scalars from byte  *)
(* 60 on.                                                                    *)

WordAt(buf, off) == buf[off + 1]
Vec3At(buf, off) == <<buf[off + 1], buf[off + 2], buf[off + 3]>>

CameraMatch(buf, tr) ==
    /\ Vec3At(buf, 0) = tr.translation
    /\ Vec3At(buf, 4) = Forward(tr)
    /\ Vec3At(buf, 8) = Right(tr)
    /\ Vec3At(buf, 12) = Up(tr)

ParamsMatch(buf, u, a) ==
    /\ WordAt(buf, 15) = a.aspect_ratio
    /\ WordAt(buf, 16) = u.power
    /\ WordAt(buf, 17) = u.max_iterations
    /\ WordAt(buf, 18) = u.bailout
    /\ WordAt(buf, 19) = u.num_steps
    /\ WordAt(buf, 20) = u.min_dist
    /\ WordAt(buf, 21) = u.max_dist
    /\ WordAt(buf, 22) = u.zoom

\* The frame being rendered: the simulation world as extraction saw it.
InFrame == pc \in {"extracted", "prepared"}
FrameCameras == frame[1].cameras
LastCamera == FrameCameras[Len(FrameCameras)]
Carried(h) == \E e \in EntityIds : frame[1].handle[e] = h
Resolved(h) == gpu[h] # <<>>
\* The material was in RenderMaterials2d when this frame's prepare looked it up.
ResolvedAtLookup(h) == h \in resolvedAtPrepare
WrittenTo(h) == \E i \in 1..Len(writes) : writes[i].buffer = h

------------------------------------------------------------------------------
(* C1 *)

\* C1 as stated: after Buffer Preparation, every material whose GPU resource
\* is resolved holds that frame's parameters and (if there is a camera) the
\* pose of one of that frame's cameras.
C1_AsStated ==
    pc = "prepared" =>
        \A h \in Handles :
            Resolved(h) =>
                /\ ParamsMatch(gpu[h], frame[1].uniforms, frame[1].aspect)
                /\ FrameCameras # <<>> =>
                       \E i \in 1..Len(FrameCameras) : CameraMatch(gpu[h], FrameCameras[i])

\* C1 amended: after Buffer Preparation, every material whose GPU resource
\* was resolved when that stage looked it up, whose handle some entity carried
\* at the frame's extraction, in a frame with at least one camera, has been
\* written in that stage and holds that frame's parameters and the pose of the
\* last camera iterated.
C1_Amended ==
    pc = "prepared" =>
        \A h \in Handles :
            (ResolvedAtLookup(h) /\ Carried(h) /\ FrameCameras # <<>>) =>
                /\ WrittenTo(h)
                /\ ParamsMatch(gpu[h], frame[1].uniforms, frame[1].aspect)
                /\ CameraMatch(gpu[h], LastCamera)

\* Second frame: a carried material, resolved at lookup, that frame 1 left
\* with the values it was created with and that is now written with a camera
\* and other parameters, next to a second carried material that was resolved
\* only after the lookup.
C1_Witness ==
    /\ pc = "prepared"
    /\ frameNo = 2
    /\ FrameCameras # <<>>
    /\ \E h1, h2 \in Handles :
          /\ ResolvedAtLookup(h1) /\ Carried(h1)
          /\ gpu[h1] # Serialize(NewMaterial)
          /\ prevGpu # <<>> /\ prevGpu[1][h1] = Serialize(NewMaterial)
          /\ Resolved(h2) /\ ~ResolvedAtLookup(h2) /\ Carried(h2)
          /\ gpu[h2] = Serialize(NewMaterial)

------------------------------------------------------------------------------
(* C2 *)

\* C2: with an entity carrying a resolved material and at least one camera,
\* after Extraction and Preparation the words at the offsets of aspect_ratio,
\* power, max_iterations, bailout, num_steps, min_dist, max_dist, zoom hold the
\* stored AspectRatio and MandelbulbUniforms values, unclamped.
C2_ParametersReachBuffer ==
    pc = "prepared" =>
        \A h \in Handles :
            (ResolvedAtLookup(h) /\ Carried(h) /\ FrameCameras # <<>>) =>
                /\ WordAt(gpu[h], 15) = aspect.aspect_ratio
                /\ WordAt(gpu[h], 16) = uniforms.power
                /\ WordAt(gpu[h], 17) = uniforms.max_iterations
                /\ WordAt(gpu[h], 18) = uniforms.bailout
                /\ WordAt(gpu[h], 19) = uniforms.num_steps
                /\ WordAt(gpu[h], 20) = uniforms.min_dist
                /\ WordAt(gpu[h], 21) = uniforms.max_dist
                /\ WordAt(gpu[h], 22) = uniforms.zoom

\* max_iterations = 0 and min_dist > max_dist are stored and reach the buffer.
C2_Witness ==
    /\ pc = "prepared"
    /\ uniforms.max_iterations = 0
    /\ uniforms.min_dist > uniforms.max_dist
    /\ \E h \in Handles :
          /\ ResolvedAtLookup(h) /\ Carried(h) /\ FrameCameras # <<>>
          /\ WordAt(gpu[h], 17) = 0

------------------------------------------------------------------------------
(* C3 *)

\* C3: with exactly one camera, of transform T, and an entity carrying a
\* resolved material, after Extraction and Preparation the buffer's
\* camera_position, camera_forward, camera_horizontal, camera_vertical are T's
\* translation, forward, right and up.
C3_CameraReachesBuffer ==
    (pc = "prepared" /\ Len(cameras) = 1) =>
        \A h \in Handles :
            (ResolvedAtLookup(h) /\ Carried(h)) =>
                /\ Vec3At(gpu[h], 0) = cameras[1].translation
                /\ Vec3At(gpu[h], 4) = Forward(cameras[1])
                /\ Vec3At(gpu[h], 8) = Right(cameras[1])
                /\ Vec3At(gpu[h], 12) = Up(cameras[1])

\* One camera whose forward, right and up are three different vectors, none
\* of them the one a new material holds.
C3_Witness ==
    /\ pc = "prepared"
    /\ Len(cameras) = 1
    /\ cameras[1].rotation = <<1, 0, 0, 1>>
    /\ \E h \in Handles :
          /\ ResolvedAtLookup(h) /\ Carried(h)
          /\ Vec3At(gpu[h], 4) = <<0, 2000, 0>>
          /\ Vec3At(gpu[h], 8) = <<2000, 0, 0>>
          /\ Vec3At(gpu[h], 12) = <<0, 0, 2000>>

------------------------------------------------------------------------------
(* C4 *)

\* The entities prepare iterates, and those of them whose material it finds.
Queried == MaterialQuery(rHandle, rTransform)
Found == { e \in Queried : ResolvedAtLookup(rHandle[e]) }

\* C4: an entity with a transform and a handle whose GPU resource is not
\* resolved when prepare looks it up causes no write and no error: prepare can run with such an entity
\* in the render world, no write targets an unresolved material, and the writes are exactly those of the
\* entities whose material is resolved, each of whose buffers then holds this
\* frame's camera and parameters.
C4_MissingResourceSkipped ==
    /\ (pc = "extracted" /\ \E e \in Queried : ~Resolved(rHandle[e])) => ENABLED Prepare
    /\ pc = "prepared" =>
          /\ \A i \in 1..Len(writes) : ResolvedAtLookup(writes[i].buffer)
          /\ \E order \in Orders(Found) :
                writes = PrepareWrites(order, gpu, rHandle, rTransform,
                                       rAspect[1].aspect_ratio, rUniforms[1])
          /\ \A e \in Found :
                /\ ParamsMatch(gpu[rHandle[e]], uniforms, aspect)
                /\ CameraMatch(gpu[rHandle[e]], rTransform[e][1])

\* One entity's material is missing, another entity's material is written.
C4_Witness ==
    /\ pc = "prepared"
    /\ \E e1, e2 \in Queried :
          /\ ~ResolvedAtLookup(rHandle[e1])
          /\ ResolvedAtLookup(rHandle[e2])
          /\ WrittenTo(rHandle[e2])
          /\ ~WrittenTo(rHandle[e1])

------------------------------------------------------------------------------
(* C5 *)

\* C5: in a frame extracted with no camera, no mirror entity has a transform,
\* prepare can run, writes nothing, and every buffer keeps what the previous
\* frame left in it.
C5_NoCamera ==
    (InFrame /\ cameras = <<>>) =>
        /\ \A e \in EntityIds : rTransform[e] = <<>>
        /\ pc = "extracted" => ENABLED Prepare
        /\ pc = "prepared" =>
              /\ writes = <<>>
              /\ \A h \in Handles :
                    (prevGpu # <<>> /\ prevGpu[1][h] # <<>>) => gpu[h] = prevGpu[1][h]

\* A frame without camera after a frame whose camera was written to the
\* buffer of a material an entity still carries.
C5_Witness ==
    /\ pc = "prepared"
    /\ cameras = <<>>
    /\ frameNo = 2
    /\ \E e \in EntityIds :
          /\ rHandle[e] # 0
          /\ Resolved(rHandle[e])
          /\ \E t \in TransformChoices : CameraMatch(gpu[rHandle[e]], t)

------------------------------------------------------------------------------
(* C6 *)

\* C6 as stated: a material that the previous frame's prepare looked up and
\* did not find, and that is resolved in this frame while an entity carries it
\* and a camera exists, is written by this frame's prepare with this frame's
\* camera and parameters.
C6_AsStated ==
    pc = "prepared" =>
        \A h \in skipped :
            (Resolved(h) /\ Carried(h) /\ cameras # <<>>) =>
                /\ WrittenTo(h)
                /\ ParamsMatch(gpu[h], uniforms, aspect)
                /\ CameraMatch(gpu[h], cameras[Len(cameras)])

\* C6 amended: a material that the previous frame's prepare looked up and did
\* not find, and that is resolved when this frame's prepare looks it up while
\* an entity carries it and a camera exists, is written by this frame's
\* prepare with this frame's camera and parameters; one that this frame's
\* prepare does not find either is not written in this frame and, if it is
\* resolved later in the frame, holds the values the material asset was
\* created with.
C6_Amended ==
    pc = "prepared" =>
        \A h \in skipped :
            /\ (ResolvedAtLookup(h) /\ Carried(h) /\ cameras # <<>>) =>
                  /\ WrittenTo(h)
                  /\ ParamsMatch(gpu[h], uniforms, aspect)
                  /\ CameraMatch(gpu[h], cameras[Len(cameras)])
            /\ ~ResolvedAtLookup(h) =>
                  /\ ~WrittenTo(h)
                  /\ Resolved(h) => gpu[h] = Serialize(NewMaterial)

\* Two materials skipped in frame 1; in frame 2 one is resolved before
\* prepare looks it up and is written, the other is resolved after and is not.
C6_Witness ==
    /\ pc = "prepared"
    /\ frameNo = 2
    /\ cameras # <<>>
    /\ \E h1, h2 \in skipped :
          /\ ResolvedAtLookup(h1) /\ Carried(h1)
          /\ WrittenTo(h1)
          /\ prevGpu[1][h1] = <<>>
          /\ gpu[h1] # Serialize(NewMaterial)
          /\ ~ResolvedAtLookup(h2) /\ Carried(h2)
          /\ Resolved(h2) /\ prevGpu[1][h2] = <<>>
          /\ ~WrittenTo(h2)

------------------------------------------------------------------------------
(* C7 *)

C7_Replaced ==
    /\ InFrame => (rUniforms = <<uniforms>> /\ rAspect = <<aspect>>)
    /\ pc = "prepared" =>
          \A h \in Handles :
              (ResolvedAtLookup(h) /\ Carried(h) /\ cameras # <<>>) =>
                  ParamsMatch(gpu[h], uniforms, aspect)

C7_NotRetroactive ==
    (uniforms' # uniforms \/ aspect' # aspect) =>
        (rUniforms' = rUniforms /\ rAspect' = rAspect /\ gpu' = gpu)

\* C7: after values are set between two extractions, the later frame's
\* render-world copies are exactly the new MandelbulbUniforms and AspectRatio
\* (no field of the earlier copy stays) and the buffer written in that frame
\* holds them; the step that sets them changes neither the render-world copies
\* nor any buffer.
C7_NextFrameReflects == [](C7_Replaced) /\ [][C7_NotRetroactive]_vars

\* Frame 1 wrote power 8.0 and num_steps 64, frame 2 power 12.0 and 128.
C7_Witness ==
    /\ pc = "prepared"
    /\ frameNo = 2
    /\ uniforms.power = 12000 /\ uniforms.num_steps = 128
    /\ \E h \in Handles :
          /\ ResolvedAtLookup(h) /\ Carried(h) /\ cameras # <<>>
          /\ prevGpu[1][h] # <<>>
          /\ \E t \in TransformChoices : CameraMatch(prevGpu[1][h], t)
          /\ WordAt(prevGpu[1][h], 16) = 8000 /\ WordAt(prevGpu[1][h], 19) = 64
          /\ WordAt(gpu[h], 16) = 12000 /\ WordAt(gpu[h], 19) = 128

------------------------------------------------------------------------------
(* C8 *)

\* C8: when nothing in the simulation world and no material changed between
\* one frame's prepare and the next frame's, every buffer holds after the
\* second what it held after the first.
C8_Idempotent ==
    (pc = "prepared" /\ quiet /\ prevGpu # <<>>) => gpu = prevGpu[1]

\* Two frames in a row over an unchanged world, both writing a buffer.
C8_Witness ==
    /\ pc = "prepared"
    /\ quiet
    /\ prevGpu # <<>>
    /\ writes # <<>>
    /\ \E h \in Handles :
          /\ WrittenTo(h)
          /\ \E t \in TransformChoices : CameraMatch(prevGpu[1][h], t)

------------------------------------------------------------------------------
(* C9 *)

\* C9: the extraction step leaves the simulation world (entities and their
\* handles, cameras, MandelbulbUniforms, AspectRatio) as it was, and writes no
\* GPU buffer and queues no buffer write.
C9_ExtractionOneWay ==
    [][(pc = "idle" /\ pc' = "extracted") =>
          (simHandle' = simHandle /\ cameras' = cameras /\ uniforms' = uniforms
           /\ aspect' = aspect /\ gpu' = gpu /\ writes' = writes)]_vars

\* An extraction that copied entities, a camera and parameters other than
\* the ones left from the frame before, with a written buffer in place.
C9_Witness ==
    /\ pc = "extracted"
    /\ frameNo = 2
    /\ \E e \in EntityIds : rHandle[e] # 0 /\ rTransform[e] # <<>>
    /\ \E h \in Handles : Resolved(h) /\ ~ParamsMatch(gpu[h], uniforms, aspect)
    /\ rUniforms = <<uniforms>>

------------------------------------------------------------------------------
(* C10 *)

\* C10: with several cameras, after extraction the mirror entities are the
\* simulation's entities with a handle, with the same handle, each with the
\* transform of the last camera iterated, and every write of that frame's
\* prepare carries that camera's position, forward, right and up.
C10_LastCameraWins ==
    (InFrame /\ Len(cameras) >= 2) =>
        /\ \A e \in EntityIds :
              /\ rHandle[e] = simHandle[e]
              /\ rTransform[e] =
                     IF simHandle[e] # 0 THEN <<cameras[Len(cameras)]>> ELSE <<>>
        /\ pc = "prepared" =>
              \A i \in 1..Len(writes) :
                  /\ CameraMatch(writes[i].data, cameras[Len(cameras)])
                  /\ CameraMatch(gpu[writes[i].buffer], cameras[Len(cameras)])

\* Two different cameras, and a write.
C10_Witness ==
    /\ pc = "prepared"
    /\ Len(cameras) = 2
    /\ cameras[1] # cameras[2]
    /\ writes # <<>>
    /\ ~CameraMatch(writes[1].data, cameras[1])

------------------------------------------------------------------------------
(* C11 *)

\* The uniform block of a frame, word by word: twelve members in the order
\* camera_position, camera_forward, camera_horizontal, camera_vertical,
\* aspect_ratio, power, max_iterations, bailout, num_steps, min_dist,
\* max_dist, zoom, each vec3 followed by what fills its fourth word.
FrameBlock(tr, a, u) ==
    << tr.translation[1], tr.translation[2], tr.translation[3], 0,
       Forward(tr)[1], Forward(tr)[2], Forward(tr)[3], 0,
       Right(tr)[1], Right(tr)[2], Right(tr)[3], 0,
       Up(tr)[1], Up(tr)[2], Up(tr)[3], a.aspect_ratio,
       u.power, u.max_iterations, u.bailout, u.num_steps,
       u.min_dist, u.max_dist, u.zoom, 0 >>

C11_FullWrites ==
    pc = "prepared" =>
        \A i \in 1..Len(writes) :
            /\ writes[i].offset = 0
            /\ Len(writes[i].data) = Len(gpu[writes[i].buffer])
            /\ FrameCameras # <<>>
            /\ writes[i].data = FrameBlock(LastCamera, frame[1].aspect, frame[1].uniforms)

C11_WholeBlockSteps ==
    \A h \in Handles :
        \/ gpu'[h] = gpu[h]
        \/ gpu[h] = <<>> /\ gpu'[h] = FrameBlock(
               Transform(Vec3(0, 0, 0), <<0, 0, 0, 1>>), AspectRatio(1000),
               MandelbulbUniforms(8000, 8, 3000, 64, 2, 1000000, 1000))
        \/ /\ pc = "extracted"
           /\ FrameCameras # <<>>
           /\ gpu'[h] = FrameBlock(LastCamera, frame[1].aspect, frame[1].uniforms)

\* C11: every write prepare schedules is at offset 0, as long as the buffer,
\* and carries the twelve members of the frame's block in the fixed order;
\* and every step that changes a buffer replaces it by the complete block of
\* the frame being prepared (or creates it with the new material's block), so
\* that a buffer never holds members of different frames.
C11_FullOverwrite == [](C11_FullWrites) /\ [][C11_WholeBlockSteps]_vars

\* A buffer written in two frames that differ in camera, AspectRatio and
\* MandelbulbUniforms.
C11_Witness ==
    /\ pc = "prepared"
    /\ frameNo = 2
    /\ \E h \in Handles :
          /\ WrittenTo(h)
          /\ prevGpu[1][h] # <<>>
          /\ \E t \in TransformChoices : CameraMatch(prevGpu[1][h], t)
          /\ Vec3At(prevGpu[1][h], 0) # Vec3At(gpu[h], 0)
          /\ WordAt(prevGpu[1][h], 15) # WordAt(gpu[h], 15)
          /\ WordAt(prevGpu[1][h], 16) # WordAt(gpu[h], 16)

------------------------------------------------------------------------------
(* C12 *)

C12_SameContents ==
    pc = "prepared" =>
        \A i, j \in 1..Len(writes) :
            writes[i].buffer = writes[j].buffer => writes[i].data = writes[j].data

C12_AnyOrder ==
    (pc = "extracted" /\ pc' = "prepared") =>
        \A order \in Orders(Queried) :
            gpu' = ApplyWrites(gpu, PrepareWrites(order, gpu, rHandle, rTransform,
                                                  rAspect[1].aspect_ratio, rUniforms[1]))

\* C12: the writes one prepare makes to one material's buffer all carry the
\* same contents, and the buffers prepare leaves are the ones every order of
\* iterating the entities leads to.
C12_OrderIndependent == [](C12_SameContents) /\ [][C12_AnyOrder]_vars

\* Two entities share a material that is written twice in a frame with two
\* different cameras.
C12_Witness ==
    /\ pc = "prepared"
    /\ Len(cameras) = 2
    /\ cameras[1] # cameras[2]
    /\ \E e1, e2 \in Queried :
          /\ e1 # e2
          /\ rHandle[e1] = rHandle[e2]
          /\ Resolved(rHandle[e1])
    /\ Len(writes) = 2
    /\ writes[1].buffer = writes[2].buffer

====
